---- MODULE Spec2Model ----
(***************************************************************************)
(* kraken2krona: Kraken 2 style reports are merged into one dictionary of  *)
(* TaxonInfo records (tax ID -> read counts + eight taxonomic ranks), the  *)
(* dictionary is turned into a table, the row of the unclassified reads is *)
(* dropped on request, rows without any rank get a display name, and the   *)
(* table is written as tab separated text.                                 *)
(*                                                                         *)
(* A report line is a sequence of one-character strings; a field is such a *)
(* sequence too.  An optional name (Python None or a str) is a sequence of *)
(* zero or one strings.  A dict is a sequence of records in insertion      *)
(* order, as Python dicts are.                                             *)
(***************************************************************************)
EXTENDS Integers, Sequences, FiniteSets, TLC

\* ------------------------------------------------------------------ bounds
MaxFiles == 2    \* report files on the command line
MaxLines == 3    \* lines ingested from all report files together

\* ------------------------------------------------------- small utilities
Range(s) == {s[i] : i \in DOMAIN s}

RECURSIVE Flatten(_)
Flatten(ss) == IF ss = <<>> THEN <<>> ELSE Head(ss) \o Flatten(Tail(ss))

None == <<>>
Some(s) == <<s>>

\* ------------------------------------------------- str.split() and int()
Whitespace == {" ", "\t", "\n"}

\* line.split(): the maximal runs of non-whitespace characters, in order.
RECURSIVE SplitFrom(_, _, _, _)
SplitFrom(s, i, cur, acc) ==
    IF i > Len(s)
    THEN IF cur = <<>> THEN acc ELSE Append(acc, cur)
    ELSE IF s[i] \in Whitespace
         THEN SplitFrom(s, i + 1, <<>>, IF cur = <<>> THEN acc ELSE Append(acc, cur))
         ELSE SplitFrom(s, i + 1, Append(cur, s[i]), acc)

Split(s) == SplitFrom(s, 1, <<>>, <<>>)

Digits == <<"0", "1", "2", "3", "4", "5", "6", "7", "8", "9">>

DigitVal(c) == (CHOOSE i \in DOMAIN Digits : Digits[i] = c) - 1

Unsigned(tok) == IF tok # <<>> /\ tok[1] \in {"+", "-"} THEN Tail(tok) ELSE tok

\* int(tok) returns a value: an optional sign followed by decimal digits.
IsInt(tok) ==
    /\ Unsigned(tok) # <<>>
    /\ \A i \in DOMAIN Unsigned(tok) : Unsigned(tok)[i] \in Range(Digits)

RECURSIVE Magnitude(_)
Magnitude(ds) ==
    IF ds = <<>> THEN 0
    ELSE 10 * Magnitude(SubSeq(ds, 1, Len(ds) - 1)) + DigitVal(ds[Len(ds)])

IntOf(tok) ==
    IF tok[1] = "-" THEN 0 - Magnitude(Unsigned(tok)) ELSE Magnitude(Unsigned(tok))

\* -------------------------------------------------------- the rank schema
taxonomy_ranks ==
    [superkingdom |-> "t_superkingdom", kingdom |-> "t_kingdom",
     phylum |-> "t_phylum", class |-> "t_class", order |-> "t_order",
     family |-> "t_family", genus |-> "t_genus", species |-> "t_species"]

\* taxonomy_ranks.values(), in the dict's order
taxonomy_cols ==
    <<"t_superkingdom", "t_kingdom", "t_phylum", "t_class",
      "t_order", "t_family", "t_genus", "t_species">>

cols_Clade == <<"hits_at_clade">> \o taxonomy_cols

cols == <<"hits_at_taxon">> \o taxonomy_cols

\* ------------------------------------------------------ the taxonomy tree
\* The TaxonomyTree the run is given: root, a rankless node under it, one
\* superkingdom, one species.  No scientific name is "Unclassified".
tt_parent == (1 :> 1) @@ (99 :> 1) @@ (2 :> 99) @@ (1234 :> 2)

tt_rank == (1 :> "no rank") @@ (99 :> "no rank") @@ (2 :> "superkingdom")
           @@ (1234 :> "species")

tt_name == (1 :> "root") @@ (99 :> "cellular organisms") @@ (2 :> "Bacteria")
           @@ (1234 :> "X")

TaxIds == DOMAIN tt_parent \cup {0}

\* tt.get_lineage([tax_id])[tax_id]: the chain from the root down to tax_id
RECURSIVE get_lineage(_)
get_lineage(tax_id) ==
    IF tt_parent[tax_id] = tax_id THEN <<tax_id>>
    ELSE Append(get_lineage(tt_parent[tax_id]), tax_id)

\* the loop body of get_taxonomy for the lineage ids 1..n
RECURSIVE FillRanks(_, _, _)
FillRanks(taxonomy_dict, lineage, n) ==
    IF n = 0 THEN taxonomy_dict
    ELSE LET before == FillRanks(taxonomy_dict, lineage, n - 1)
             lineage_tax_id == lineage[n]
             lineage_tax_id_rank == tt_rank[lineage_tax_id]
         IN  IF lineage_tax_id_rank \in DOMAIN taxonomy_ranks
             THEN [before EXCEPT ![taxonomy_ranks[lineage_tax_id_rank]] =
                                     Some(tt_name[lineage_tax_id])]
             ELSE before

get_taxonomy(tax_id) ==
    LET taxonomy_dict == [c \in Range(taxonomy_cols) |-> None]
    IN  IF tax_id = 0 THEN taxonomy_dict
        ELSE FillRanks(taxonomy_dict, get_lineage(tax_id), Len(get_lineage(tax_id)))

\* the ids get_taxonomy hands to the TaxonomyTree
LineageQueries(tax_id) == IF tax_id = 0 THEN {} ELSE Range(get_lineage(tax_id))

\* ------------------------------------------------------------ parse_report
\* the three int() conversions of a split line raise nothing
Accepts(toks) ==
    /\ Len(toks) >= 2 /\ IsInt(toks[2])
    /\ Len(toks) >= 3 /\ IsInt(toks[3])
    /\ Len(toks) >= 5 /\ IsInt(toks[5])

HasTaxon(dict, tax_id) == \E i \in DOMAIN dict : dict[i].t_id = tax_id

\* the test "tax_id in taxon_info_dict" fails: the else branch runs
Resolves_Always(dict, tax_id) == TRUE

Resolves(dict, tax_id) == ~HasTaxon(dict, tax_id)

AddHits_Overwrite(rec, hits_at_clade, hits_at_taxon) ==
    [rec EXCEPT !.hits_at_clade = hits_at_clade,
                !.hits_at_taxon = hits_at_taxon]

AddHits_AssignTaxon(rec, hits_at_clade, hits_at_taxon) ==
    [rec EXCEPT !.hits_at_clade = @ + hits_at_clade,
                !.hits_at_taxon = hits_at_taxon]

AddHits_Subtract(rec, hits_at_clade, hits_at_taxon) ==
    [rec EXCEPT !.hits_at_clade = @ - hits_at_clade,
                !.hits_at_taxon = @ - hits_at_taxon]

AddHits(rec, hits_at_clade, hits_at_taxon) ==
    [rec EXCEPT !.hits_at_clade = @ + hits_at_clade,
                !.hits_at_taxon = @ + hits_at_taxon]

NewTaxonInfo(tax_id, hits_at_clade, hits_at_taxon) ==
    get_taxonomy(tax_id) @@
    [t_id |-> tax_id, hits_at_clade |-> hits_at_clade, hits_at_taxon |-> hits_at_taxon]

\* one iteration of the loop over the lines, for a line int() accepts
ParseLine(dict, toks) ==
    LET hits_at_clade == IntOf(toks[2])
        hits_at_taxon == IntOf(toks[3])
        tax_id == IntOf(toks[5])
    IN  IF ~Resolves(dict, tax_id)
        THEN [i \in DOMAIN dict |->
                 IF dict[i].t_id = tax_id
                 THEN AddHits(dict[i], hits_at_clade, hits_at_taxon)
                 ELSE dict[i]]
        ELSE Append(dict, NewTaxonInfo(tax_id, hits_at_clade, hits_at_taxon))

\* parse_report over a whole stream of accepted lines
RECURSIVE parse_report(_, _)
parse_report(lines, dict) ==
    IF lines = <<>> THEN dict
    ELSE parse_report(Tail(lines), ParseLine(dict, Split(Head(lines))))

\* the main loop over the report files
RECURSIVE ParseReports(_, _)
ParseReports(files, dict) ==
    IF files = <<>> THEN dict
    ELSE ParseReports(Tail(files), parse_report(Head(files), dict))

\* ------------------------------------------------------- the report lines
LineA ==      \* "50.00 12 8 S 1234 Some name"
    << "5", "0", ".", "0", "0", " ", "1", "2", " ", "8", " ", "S", " ",
       "1", "2", "3", "4", " ", "S", "o", "m", "e", " ", "n", "a", "m", "e" >>

LineU ==      \* "30.00 3 3 U 0 unclassified"
    << "3", "0", ".", "0", "0", " ", "3", " ", "3", " ", "U", " ", "0", " ",
       "u", "n", "c", "l", "a", "s", "s", "i", "f", "i", "e", "d" >>

LineC5 ==     \* "5.00 9 5 R1 99 cellular"
    << "5", ".", "0", "0", " ", "9", " ", "5", " ", "R", "1", " ", "9", "9",
       " ", "c", "e", "l", "l", "u", "l", "a", "r" >>

LineC7 ==     \* "7.00<tab>7 7 R1 99  cellular"
    << "7", ".", "0", "0", "\t", "7", " ", "7", " ", "R", "1", " ", "9", "9",
       " ", " ", "c", "e", "l", "l", "u", "l", "a", "r" >>

LineNeg ==    \* "-1.00 -2 -1 S 1234 X"
    << "-", "1", ".", "0", "0", " ", "-", "2", " ", "-", "1", " ", "S", " ",
       "1", "2", "3", "4", " ", "X" >>

LineShort ==  \* "50.00 12 8"
    << "5", "0", ".", "0", "0", " ", "1", "2", " ", "8" >>

LineNonInt1 == \* "1.00 1x 8 S 1234 X"
    << "1", ".", "0", "0", " ", "1", "x", " ", "8", " ", "S", " ",
       "1", "2", "3", "4", " ", "X" >>

LineNonInt2 == \* "1.00 12 8.5 S 1234 X"
    << "1", ".", "0", "0", " ", "1", "2", " ", "8", ".", "5", " ", "S", " ",
       "1", "2", "3", "4", " ", "X" >>

LineNonInt4 == \* "1.00 12 8 S G99 X"
    << "1", ".", "0", "0", " ", "1", "2", " ", "8", " ", "S", " ",
       "G", "9", "9", " ", "X" >>

LineBlank == <<>>

ReportLines ==
    {LineA, LineU, LineC5, LineC7, LineNeg,
     LineShort, LineNonInt1, LineNonInt2, LineNonInt4, LineBlank}

\* ------------------------------------------------------------------ state
VARIABLES
    pc,                    \* position in kraken2krona()
    include_unclassified,  \* args.include_unclassified
    taxon_info_dict,       \* the accumulating dictionary
    line,                  \* parse_report's variable line, after line.split()
    taxon_info_df,         \* the DataFrame, indexed by t_id
    output,                \* the rows written to args.output_file
    reports,               \* history: the lines ingested so far, per report file
    resolved,              \* history: number of get_taxonomy calls per tax ID
    tt_queries             \* history: the ids handed to the TaxonomyTree

vars == <<pc, include_unclassified, taxon_info_dict, line, taxon_info_df,
          output, reports, resolved, tt_queries>>

Init ==
    /\ pc = "main"
    /\ include_unclassified \in BOOLEAN
    /\ taxon_info_dict = <<>>
    /\ line = <<>>
    /\ taxon_info_df = <<>>
    /\ output = <<>>
    /\ reports = <<>>
    /\ resolved = [t \in TaxIds |-> 0]
    /\ tt_queries = {}

\* --------------------------------------------------------------- ingestion
\* the main loop takes the next report file and calls parse_report on it
OpenReport ==
    /\ pc = "main"
    /\ Len(reports) < MaxFiles
    /\ pc' = "parse"
    /\ reports' = Append(reports, <<>>)
    /\ UNCHANGED <<include_unclassified, taxon_info_dict, line, taxon_info_df,
                   output, resolved, tt_queries>>

\* a line int() rejects is passed over and the loop goes on
ReadLine_SkipBad(raw) ==
    /\ pc = "parse"
    /\ Len(Flatten(reports)) < MaxLines
    /\ line' = Split(raw)
    /\ pc' = "parse"
    /\ IF Accepts(Split(raw))
       THEN LET tax_id == IntOf(Split(raw)[5])
                first == Resolves(taxon_info_dict, tax_id)
            IN  /\ taxon_info_dict' = ParseLine(taxon_info_dict, Split(raw))
                /\ reports' = [reports EXCEPT ![Len(reports)] = Append(@, raw)]
                /\ resolved' = IF first THEN [resolved EXCEPT ![tax_id] = @ + 1]
                                        ELSE resolved
                /\ tt_queries' = IF first THEN tt_queries \cup LineageQueries(tax_id)
                                          ELSE tt_queries
       ELSE UNCHANGED <<taxon_info_dict, reports, resolved, tt_queries>>
    /\ UNCHANGED <<include_unclassified, taxon_info_df, output>>

\* one iteration of parse_report's loop on the line raw
ReadLine(raw) ==
    /\ pc = "parse"
    /\ Len(Flatten(reports)) < MaxLines
    /\ line' = Split(raw)
    /\ IF Accepts(Split(raw))
       THEN LET tax_id == IntOf(Split(raw)[5])
                first == Resolves(taxon_info_dict, tax_id)
            IN  /\ taxon_info_dict' = ParseLine(taxon_info_dict, Split(raw))
                /\ reports' = [reports EXCEPT ![Len(reports)] = Append(@, raw)]
                /\ resolved' = IF first THEN [resolved EXCEPT ![tax_id] = @ + 1]
                                        ELSE resolved
                /\ tt_queries' = IF first THEN tt_queries \cup LineageQueries(tax_id)
                                          ELSE tt_queries
                /\ pc' = "parse"
       ELSE \* IndexError or ValueError leaves parse_report and kraken2krona
            /\ pc' = "failed"
            /\ UNCHANGED <<taxon_info_dict, reports, resolved, tt_queries>>
    /\ UNCHANGED <<include_unclassified, taxon_info_df, output>>

\* the stream is exhausted: parse_report returns the dictionary
EndOfReport ==
    /\ pc = "parse"
    /\ pc' = "main"
    /\ UNCHANGED <<include_unclassified, taxon_info_dict, line, taxon_info_df,
                   output, reports, resolved, tt_queries>>

\* ------------------------------------------------- table, filter, names
\* pd.DataFrame(taxon_info_list).set_index('t_id'): one row per record, in the
\* dictionary's order; without any record there is no column t_id (KeyError)
BuildFrame ==
    /\ pc = "main"
    /\ Len(reports) >= 1
    /\ IF taxon_info_dict = <<>>
       THEN pc' = "failed" /\ UNCHANGED taxon_info_df
       ELSE pc' = "frame" /\ taxon_info_df' = taxon_info_dict
    /\ UNCHANGED <<include_unclassified, taxon_info_dict, line, output,
                   reports, resolved, tt_queries>>

InIndex(df, tax_id) == \E i \in DOMAIN df : df[i].t_id = tax_id

\* taxon_info_df.drop(tax_id, inplace=True)
DropRow(df, tax_id) == SelectSeq(df, LAMBDA row : row.t_id # tax_id)

DropIfExcluded_Never(df, include) == df

DropIfExcluded(df, include) ==
    IF ~include /\ InIndex(df, 0) THEN DropRow(df, 0) ELSE df

DropUnclassified ==
    /\ pc = "frame"
    /\ pc' = "filtered"
    /\ taxon_info_df' = DropIfExcluded(taxon_info_df, include_unclassified)
    /\ UNCHANGED <<include_unclassified, taxon_info_dict, line, output,
                   reports, resolved, tt_queries>>

\* taxon_info_df[taxonomy_cols].isnull().all(axis=1)
TaxonomicallyEmpty(row) == \A i \in DOMAIN taxonomy_cols : row[taxonomy_cols[i]] = None

tax_id_name(tax_id) == IF tax_id = 0 THEN "Unclassified" ELSE tt_name[tax_id]

SetName_Every(row) ==
    [row EXCEPT !.t_superkingdom = Some(tax_id_name(row.t_id))]

SetName(row) ==
    IF TaxonomicallyEmpty(row)
    THEN [row EXCEPT !.t_superkingdom = Some(tax_id_name(row.t_id))]
    ELSE row

EmptyRowIds(df) ==
    {df[i].t_id : i \in {j \in DOMAIN df : TaxonomicallyEmpty(df[j])}}

\* the names are set on the table as built, the drop is passed over
SetNames_BeforeFilter ==
    /\ pc = "frame"
    /\ pc' = "named"
    /\ taxon_info_df' = [i \in DOMAIN taxon_info_df |-> SetName(taxon_info_df[i])]
    /\ tt_queries' = tt_queries \cup (EmptyRowIds(taxon_info_df) \ {0})
    /\ UNCHANGED <<include_unclassified, taxon_info_dict, line, output,
                   reports, resolved>>

SetNames ==
    /\ pc = "filtered"
    /\ pc' = "named"
    /\ taxon_info_df' = [i \in DOMAIN taxon_info_df |-> SetName(taxon_info_df[i])]
    /\ tt_queries' = tt_queries \cup (EmptyRowIds(taxon_info_df) \ {0})
    /\ UNCHANGED <<include_unclassified, taxon_info_dict, line, output,
                   reports, resolved>>

\* ---------------------------------------------------------------- to_csv
\* a missing value is written as the empty string
CsvName_Repr(v) == IF v = None THEN "None" ELSE v[1]

CsvName(v) == IF v = None THEN "" ELSE v[1]

CsvField(row, col) ==
    IF col \in Range(taxonomy_cols) THEN CsvName(row[col]) ELSE ToString(row[col])

CsvRow(row) == [k \in DOMAIN cols |-> CsvField(row, cols[k])]

to_csv(df) == [i \in DOMAIN df |-> CsvRow(df[i])]

WriteOutput ==
    /\ pc = "named"
    /\ pc' = "done"
    /\ output' = to_csv(taxon_info_df)
    /\ UNCHANGED <<include_unclassified, taxon_info_dict, line, taxon_info_df,
                   reports, resolved, tt_queries>>

Next ==
    \/ OpenReport
    \/ \E raw \in ReportLines : ReadLine(raw)
    \/ EndOfReport
    \/ BuildFrame
    \/ DropUnclassified
    \/ SetNames
    \/ WriteOutput

Spec == Init /\ [][Next]_vars

\* =================================================================== claims
\* what the report lines say, read off the ingested lines field by field
IngestedLines == Flatten(reports)

FieldOf(raw, k) == IntOf(Split(raw)[k + 1])

\* the integers in fields 1, 2 and 4 of every ingested line
IngestedFields ==
    [i \in DOMAIN IngestedLines |->
        LET toks == Split(IngestedLines[i])
        IN  (1 :> IntOf(toks[2])) @@ (2 :> IntOf(toks[3])) @@ (4 :> IntOf(toks[5]))]

IdsIn(fields) == {fields[i][4] : i \in DOMAIN fields}

SeenIds == IdsIn(IngestedFields)

\* the sum of field k over the lines whose field 4 is tax_id
RECURSIVE SumField(_, _, _)
SumField(fields, tax_id, k) ==
    IF fields = <<>> THEN 0
    ELSE (IF Head(fields)[4] = tax_id THEN Head(fields)[k] ELSE 0)
         + SumField(Tail(fields), tax_id, k)

RecordsOf(tax_id) == {i \in DOMAIN taxon_info_dict : taxon_info_dict[i].t_id = tax_id}

RankFields ==
    <<"t_superkingdom", "t_kingdom", "t_phylum", "t_class",
      "t_order", "t_family", "t_genus", "t_species">>

RanksOf(rec) == [k \in DOMAIN RankFields |-> rec[RankFields[k]]]

NoRank(rec) == \A k \in DOMAIN RankFields : rec[RankFields[k]] = None

\* the records whose rows are to be emitted, in the dictionary's order
Survivors ==
    SelectSeq(taxon_info_dict, LAMBDA rec : include_unclassified \/ rec.t_id # 0)

UnclassifiedRows == {i \in DOMAIN output : output[i][2] = "Unclassified"}

\* C1: at every point of the run, every tax ID on an ingested line has exactly
\* one record, whose hits_at_taxon is the sum of field 2 and whose
\* hits_at_clade is the sum of field 1 over all ingested lines (of all report
\* files) with that ID in field 4; no other ID has a record.
C1_Aggregation ==
    LET fields == IngestedFields
    IN  /\ \A i \in DOMAIN taxon_info_dict : taxon_info_dict[i].t_id \in IdsIn(fields)
        /\ \A t \in IdsIn(fields) :
              /\ Cardinality(RecordsOf(t)) = 1
              /\ \A i \in RecordsOf(t) :
                    /\ taxon_info_dict[i].hits_at_taxon = SumField(fields, t, 2)
                    /\ taxon_info_dict[i].hits_at_clade = SumField(fields, t, 1)

\* two report files with one line for tax ID 99 each, taxon counts 5 and 7
C1_Witness ==
    /\ pc = "main"
    /\ reports = <<<<LineC5>>, <<LineC7>>>>
    /\ \E i \in DOMAIN taxon_info_dict :
          /\ taxon_info_dict[i].t_id = 99
          /\ taxon_info_dict[i].hits_at_taxon = 12
          /\ taxon_info_dict[i].hits_at_clade = 16

\* C2: once whole report files have been ingested, parsing the same files in
\* any other order yields the same record (both counters and all eight ranks)
\* for every tax ID.
Reordered(p) == [i \in DOMAIN reports |-> reports[p[i]]]

C2_OrderIndependent ==
    pc \in {"main", "frame", "filtered", "named", "done"} =>
        \A p \in Permutations(DOMAIN reports) :
            Range(ParseReports(Reordered(p), <<>>)) = Range(taxon_info_dict)

\* two files with different lines whose other order builds the dictionary in
\* another insertion order, one tax ID being in both files
C2_Witness ==
    /\ pc = "done"
    /\ Len(reports) = 2
    /\ \E p \in Permutations(DOMAIN reports) :
          ParseReports(Reordered(p), <<>>) # taxon_info_dict
    /\ \E t \in SeenIds :
          /\ \E i \in DOMAIN reports[1] : FieldOf(reports[1][i], 4) = t
          /\ \E i \in DOMAIN reports[2] : FieldOf(reports[2][i], 4) = t
          /\ reports[1] # reports[2]

\* C3: in the written table, without --include_unclassified no row has
\* "Unclassified" as its first rank field; with the flag and tax ID 0 on an
\* ingested line exactly one row has, and its count is the sum of field 2
\* over the lines with ID 0.
C3_Exclusion ==
    pc = "done" =>
        /\ ~include_unclassified => UnclassifiedRows = {}
        /\ (include_unclassified /\ 0 \in SeenIds) =>
              /\ Cardinality(UnclassifiedRows) = 1
              /\ \A i \in UnclassifiedRows :
                    output[i][1] = ToString(SumField(IngestedFields, 0, 2))

\* the flag is set and ID 0 is on two lines, next to another taxon
C3_Witness ==
    /\ pc = "done"
    /\ include_unclassified
    /\ SumField(IngestedFields, 0, 2) = 6
    /\ Len(output) >= 2

\* C3, second case: the flag is unset and ID 0 was ingested
C3_WitnessExcluded ==
    /\ pc = "done"
    /\ ~include_unclassified
    /\ 0 \in SeenIds

\* C4 as claimed: the run over the single line "50.00 12 8 S 1234 Some name"
\* writes the one row 8, "", Bacteria, "", "", "", "", "", X.
C4_ScenarioA_Claimed ==
    (pc = "done" /\ IngestedLines = <<LineA>>) =>
        output = << <<"8", "", "Bacteria", "", "", "", "", "", "X">> >>

\* C4 amended: the run over the single line "50.00 12 8 S 1234 Some name"
\* writes the one row 8, Bacteria, "", "", "", "", "", "", X: the count, then
\* superkingdom, then six empty fields kingdom to genus, then species.
C4_ScenarioA ==
    (pc = "done" /\ IngestedLines = <<LineA>>) =>
        output = << <<"8", "Bacteria", "", "", "", "", "", "", "X">> >>

C4_Witness == pc = "done" /\ IngestedLines = <<LineA>> /\ Len(output) = 1

Malformed(toks) ==
    \/ Len(toks) < 5
    \/ ~IsInt(toks[2]) \/ ~IsInt(toks[3]) \/ ~IsInt(toks[5])

C6_Abort ==
    /\ [](pc = "failed" => output = <<>>)
    /\ [][ /\ (pc = "parse" /\ pc' # "main" /\ Malformed(line')) =>
                /\ pc' = "failed"
                /\ taxon_info_dict' = taxon_info_dict
                /\ reports' = reports
           /\ pc = "failed" =>
                /\ pc' = "failed"
                /\ taxon_info_dict' = taxon_info_dict
                /\ reports' = reports
                /\ output' = output ]_vars

\* a line of 3 fields met after a record was made
C6_Witness ==
    /\ pc = "failed"
    /\ Len(line) = 3
    /\ taxon_info_dict # <<>>
    /\ Len(reports) < MaxFiles

\* C6, a non-integer in the tax ID field of a line of five fields or more
C6_WitnessNonInt ==
    /\ pc = "failed"
    /\ Len(line) >= 5
    /\ ~IsInt(line[5])

\* C7: get_taxonomy has been called exactly once for every tax ID seen and
\* never for another, and no step changes the tax ID or one of the eight
\* ranks of a record that is in the dictionary.
C7_ResolveOnce ==
    /\ [](LET seen == SeenIds
          IN  \A t \in TaxIds : resolved[t] = IF t \in seen THEN 1 ELSE 0)
    /\ [][\A i \in DOMAIN taxon_info_dict :
             /\ i \in DOMAIN taxon_info_dict'
             /\ taxon_info_dict'[i].t_id = taxon_info_dict[i].t_id
             /\ RanksOf(taxon_info_dict'[i]) = RanksOf(taxon_info_dict[i])]_vars

\* a tax ID seen on three lines of two report files, the table being written
C7_Witness ==
    /\ pc = "done"
    /\ \E t \in SeenIds :
          /\ Cardinality({i \in DOMAIN IngestedLines :
                             FieldOf(IngestedLines[i], 4) = t}) = 3
          /\ resolved[t] = 1

\* C8 as claimed: the names of the rows without ranks are set before the
\* unclassified row is filtered out, so that once the filter has run no row
\* of the table is without any rank.
C8_NamedBeforeFilter ==
    pc = "filtered" => \A i \in DOMAIN taxon_info_df : ~NoRank(taxon_info_df[i])

\* C8 amended: every run goes through ingestion of all report files, then the
\* unclassified filter, then the naming of the rows without ranks, then the
\* write, each once: the table is built only from the main loop, the filter
\* works on the table as built (no name set yet), the names are set on the
\* filtered table, and the write takes the named table.
C8_FilterThenName ==
    [][ /\ (taxon_info_dict' # taxon_info_dict \/ reports' # reports) =>
              (pc = "parse" \/ pc = "main") /\ taxon_info_df = <<>> /\ output = <<>>
        /\ (pc' = "frame" /\ pc # "frame") =>
              pc = "main" /\ taxon_info_df' = taxon_info_dict
        /\ (pc' = "filtered" /\ pc # "filtered") =>
              /\ pc = "frame"
              /\ taxon_info_df = taxon_info_dict
              /\ taxon_info_df' = Survivors
        /\ (pc' = "named" /\ pc # "named") =>
              /\ pc = "filtered"
              /\ taxon_info_df = Survivors
              /\ \A i \in DOMAIN taxon_info_df' : ~NoRank(taxon_info_df'[i])
        /\ (pc' = "done" /\ pc # "done") =>
              pc = "named" /\ taxon_info_df' = taxon_info_df /\ output = <<>> ]_vars

\* a finished run in which the filter dropped the unclassified row and a row
\* without ranks was named
C8_Witness ==
    /\ pc = "done"
    /\ ~include_unclassified
    /\ 0 \in SeenIds
    /\ 99 \in SeenIds

\* C9: in the written table the row of a record without any resolved rank has
\* "Unclassified" (tax ID 0) or the taxon's scientific name (any other ID) as
\* first rank field and seven empty fields after it; the row of any other
\* record has the eight ranks as get_taxonomy resolves them; the TaxonomyTree
\* is never asked about tax ID 0.
C9_EmptyLineageNaming ==
    /\ 0 \notin tt_queries
    /\ pc = "done" =>
          \A i \in DOMAIN Survivors :
              LET rec == Survivors[i]
              IN  IF NoRank(rec)
                  THEN /\ output[i][2] = IF rec.t_id = 0 THEN "Unclassified"
                                                         ELSE tt_name[rec.t_id]
                       /\ \A k \in 3..9 : output[i][k] = ""
                  ELSE \A k \in DOMAIN RankFields :
                          output[i][k + 1] =
                              LET v == get_taxonomy(rec.t_id)[RankFields[k]]
                              IN  IF v = None THEN "" ELSE v[1]

\* the three kinds of row in one table
C9_Witness ==
    /\ pc = "done"
    /\ include_unclassified
    /\ {0, 99, 1234} \subseteq SeenIds
    /\ Len(output) = 3

\* C10 as claimed: no step on a line that int() accepts makes a counter of a
\* record smaller.
C10_Monotone ==
    [][\A i \in DOMAIN taxon_info_dict :
          /\ taxon_info_dict'[i].hits_at_clade >= taxon_info_dict[i].hits_at_clade
          /\ taxon_info_dict'[i].hits_at_taxon >= taxon_info_dict[i].hits_at_taxon]_vars

\* C10 amended: no step makes a counter of a record smaller, unless it is the
\* step of parse_report on a line whose clade count or taxon count is negative.
NonNegativeCounts(toks) == IntOf(toks[2]) >= 0 /\ IntOf(toks[3]) >= 0

C10_MonotoneNonNegative ==
    [][(IngestedLines' # IngestedLines => NonNegativeCounts(line')) =>
          \A i \in DOMAIN taxon_info_dict :
             /\ taxon_info_dict'[i].hits_at_clade >= taxon_info_dict[i].hits_at_clade
             /\ taxon_info_dict'[i].hits_at_taxon >= taxon_info_dict[i].hits_at_taxon]_vars

\* a record whose counters were raised by a second line for its tax ID
C10_Witness ==
    /\ pc = "parse"
    /\ IngestedLines = <<LineA, LineA>>
    /\ \E i \in DOMAIN taxon_info_dict :
          /\ taxon_info_dict[i].hits_at_taxon = 16
          /\ taxon_info_dict[i].hits_at_clade = 24
====
